---- MODULE Spec2Model ----
(***************************************************************************)
(* Model of the ingestion-and-normalization pipeline:                      *)
(*   app/services/ai_service.py         GeminiService.process_image        *)
(*   app/services/file_info_service.py  FileInfoService                    *)
(*   ejemplo_uso.py                     encode_image_to_base64             *)
(*                                                                         *)
(* Text is a sequence of one-character strings.  Bytes are 0..255.         *)
(* A size in kilobytes is kept in hundredths (12 stands for 0.12).         *)
(* The library calls (base64.b64decode, str.split, str.strip, json.loads,  *)
(* round) are modelled by what CPython 3.11 does.  The logger is taken not *)
(* to raise.                                                               *)
(***************************************************************************)
EXTENDS Integers, Sequences, FiniteSets, TLC

(***************************************************************************)
(* Bounds of the model.                                                    *)
(*   MaxPayloadLen   length of the payloads enumerated character by        *)
(*                   character                                             *)
(*   MaxTail         bytes that follow a signature, or what falls short of *)
(*                   one, in an encoded file                               *)
(*   MaxSizeBytes    length of the files whose size is calculated          *)
(*   MaxText         length of the reply texts                             *)
(*   RecursionLimit  containers json.loads descends into before the       *)
(*                   interpreter raises RecursionError (about 1000 in      *)
(*                   CPython, scaled down to the reply texts)              *)
(*   NInv            invocations of process_image in flight                *)
(***************************************************************************)
MaxPayloadLen == 4
MaxTail == 1
MaxSizeBytes == 130
MaxText == 4
RecursionLimit == 2
NInv == 2

(***************************************************************************)
(* Sequences.                                                              *)
(***************************************************************************)
SeqsUpTo(S, n) == UNION {[1..k -> S] : k \in 0..n}

StartsWith(s, p) == Len(s) >= Len(p) /\ SubSeq(s, 1, Len(p)) = p

Contains(s, c) == \E i \in 1..Len(s) : s[i] = c

\* position of the first c in s at or after i, 0 when there is none
IndexFrom(s, c, i) ==
    IF \E k \in i..Len(s) : s[k] = c
    THEN CHOOSE k \in i..Len(s) : s[k] = c /\ \A j \in i..(k - 1) : s[j] # c
    ELSE 0

RECURSIVE Split(_, _)
\* str.split(c): the segments between the separators, in order
Split(s, c) ==
    LET k == IndexFrom(s, c, 1)
    IN  IF k = 0 THEN <<s>>
        ELSE <<SubSeq(s, 1, k - 1)>> \o Split(SubSeq(s, k + 1, Len(s)), c)

(***************************************************************************)
(* base64                                                                  *)
(***************************************************************************)
B64Alphabet ==
    << "A","B","C","D","E","F","G","H","I","J","K","L","M","N","O","P",
       "Q","R","S","T","U","V","W","X","Y","Z","a","b","c","d","e","f",
       "g","h","i","j","k","l","m","n","o","p","q","r","s","t","u","v",
       "w","x","y","z","0","1","2","3","4","5","6","7","8","9","+","/" >>

\* stands for any character outside ASCII
NonAscii == "U+00E9"

IsB64Char(c) == \E i \in 1..64 : B64Alphabet[i] = c

B64Val(c) == (CHOOSE i \in 1..64 : B64Alphabet[i] = c) - 1

RECURSIVE B64EncodeFrom(_, _)
B64EncodeFrom(b, i) ==
    LET n  == Len(b) - i + 1
        b1 == b[i]
        b2 == IF n >= 2 THEN b[i + 1] ELSE 0
        b3 == IF n >= 3 THEN b[i + 2] ELSE 0
        c1 == B64Alphabet[(b1 \div 4) + 1]
        c2 == B64Alphabet[((b1 % 4) * 16 + (b2 \div 16)) + 1]
        c3 == B64Alphabet[((b2 % 16) * 4 + (b3 \div 64)) + 1]
        c4 == B64Alphabet[(b3 % 64) + 1]
    IN  IF n <= 0 THEN <<>>
        ELSE IF n = 1 THEN <<c1, c2, "=", "=">>
        ELSE IF n = 2 THEN <<c1, c2, c3, "=">>
        ELSE <<c1, c2, c3, c4>> \o B64EncodeFrom(b, i + 3)

\* base64.b64encode(bytes).decode('utf-8')
B64Encode(b) == B64EncodeFrom(b, 1)

DecodeOk(b) == [ok |-> TRUE, bytes |-> b]
DecodeError == [ok |-> FALSE, bytes |-> <<>>]

\* binascii.a2b_base64, not strict, as the loop over the characters that it
\* is: st is the state of the loop (done: a completed pad sequence has ended
\* the input), and A2BChar is one turn of it.  Characters outside the
\* alphabet are skipped.
A2BStart == [quad_pos |-> 0, leftchar |-> 0, pads |-> 0, out |-> <<>>, done |-> FALSE]

A2BChar(st, c) ==
    IF st.done THEN st
    ELSE IF c = "="
    THEN IF st.quad_pos >= 2 /\ st.quad_pos + st.pads + 1 >= 4
         THEN [st EXCEPT !.done = TRUE]
         ELSE IF st.quad_pos >= 2 THEN [st EXCEPT !.pads = st.pads + 1] ELSE st
    ELSE IF ~IsB64Char(c) THEN st
    ELSE LET v == B64Val(c) IN
         CASE st.quad_pos = 0 ->
                [st EXCEPT !.quad_pos = 1, !.leftchar = v, !.pads = 0]
           [] st.quad_pos = 1 ->
                [st EXCEPT !.quad_pos = 2, !.leftchar = v % 16, !.pads = 0,
                           !.out = Append(st.out, (st.leftchar * 4 + (v \div 16)) % 256)]
           [] st.quad_pos = 2 ->
                [st EXCEPT !.quad_pos = 3, !.leftchar = v % 4, !.pads = 0,
                           !.out = Append(st.out, (st.leftchar * 16 + (v \div 4)) % 256)]
           [] OTHER ->
                [st EXCEPT !.quad_pos = 0, !.leftchar = 0, !.pads = 0,
                           !.out = Append(st.out, (st.leftchar * 64 + v) % 256)]

RECURSIVE A2BLoop(_, _, _, _)
\* the loop over s[lo..hi], from state st
A2BLoop(s, lo, hi, st) ==
    IF lo > hi THEN st
    ELSE IF lo = hi THEN A2BChar(st, s[lo])
    ELSE LET mid == (lo + hi) \div 2
             half == A2BLoop(s, lo, mid, st)
         IN  IF half.done THEN half ELSE A2BLoop(s, mid + 1, hi, half)

\* what is left of an unfinished quad at the end of the input is an error
A2B(s) ==
    LET st == A2BLoop(s, 1, Len(s), A2BStart)
    IN  IF ~st.done /\ st.quad_pos # 0 THEN DecodeError ELSE DecodeOk(st.out)

\* base64.b64decode(str): a str with a character outside ASCII is refused
B64Decode(s) ==
    IF Contains(s, NonAscii) THEN DecodeError
    ELSE A2B(s)

\* if ',' in x: x = x.split(',')[1]
StripPrefix(s) ==
    IF Contains(s, ",") THEN Split(s, ",")[2] ELSE s

(***************************************************************************)
(* FileInfoService                                                         *)
(*                                                                         *)
(* A call's result is [raised, value]: raised tells that the call ended in *)
(* an exception instead of returning value.                                *)
(***************************************************************************)
PDF == <<"P", "D", "F">>
PNG == <<"P", "N", "G">>
JPEG == <<"J", "P", "E", "G">>
UNKNOWN == <<"U", "N", "K", "N", "O", "W", "N">>

\* b'%PDF', b'\x89PNG', b'\xff\xd8\xff'
MagicPDF == <<37, 80, 68, 70>>
MagicPNG == <<137, 80, 78, 71>>
MagicJPEG == <<255, 216, 255>>

Upper == <<"A","B","C","D","E","F","G","H","I","J","K","L","M",
           "N","O","P","Q","R","S","T","U","V","W","X","Y","Z">>
LowerOf == <<"a","b","c","d","e","f","g","h","i","j","k","l","m",
             "n","o","p","q","r","s","t","u","v","w","x","y","z">>

LowerChar(c) ==
    IF \E i \in 1..26 : Upper[i] = c
    THEN LowerOf[CHOOSE i \in 1..26 : Upper[i] = c]
    ELSE c

\* str.lower()
Lower(s) == [i \in 1..Len(s) |-> LowerChar(s[i])]

Returned(v) == [raised |-> FALSE, value |-> v]
Raised(v) == [raised |-> TRUE, value |-> v]

\* faulty variant: a JPEG is recognised by its first two bytes alone
detect_file_type_loose(file_base64) ==
    LET d == B64Decode(StripPrefix(file_base64)) IN
    IF ~d.ok THEN Returned(UNKNOWN)
    ELSE IF StartsWith(d.bytes, MagicPDF) THEN Returned(PDF)
    ELSE IF StartsWith(d.bytes, MagicPNG) THEN Returned(PNG)
    ELSE IF StartsWith(d.bytes, <<255, 216>>) THEN Returned(JPEG)
    ELSE Returned(UNKNOWN)

\* faulty variant: a decoding failure is not caught
detect_file_type_raising(file_base64) ==
    LET d == B64Decode(StripPrefix(file_base64)) IN
    IF ~d.ok THEN Raised(UNKNOWN)
    ELSE IF StartsWith(d.bytes, MagicPDF) THEN Returned(PDF)
    ELSE IF StartsWith(d.bytes, MagicPNG) THEN Returned(PNG)
    ELSE IF StartsWith(d.bytes, MagicJPEG) THEN Returned(JPEG)
    ELSE Returned(UNKNOWN)

detect_file_type(file_base64) ==
    LET d == B64Decode(StripPrefix(file_base64)) IN
    IF ~d.ok THEN Returned(UNKNOWN)
    ELSE IF StartsWith(d.bytes, MagicPDF) THEN Returned(PDF)
    ELSE IF StartsWith(d.bytes, MagicPNG) THEN Returned(PNG)
    ELSE IF StartsWith(d.bytes, MagicJPEG) THEN Returned(JPEG)
    ELSE Returned(UNKNOWN)

\* faulty variant: a tie goes up
RoundHalfUp(a, b) == (2 * a + b) \div (2 * b)

\* round(a / b, 0) of Python: the nearest integer, a tie going to the even one
RoundHalfEven(a, b) ==
    LET q == a \div b
        r == a % b
    IN  IF 2 * r < b THEN q
        ELSE IF 2 * r > b THEN q + 1
        ELSE IF q % 2 = 0 THEN q ELSE q + 1

\* the value is round(len(file_bytes) / 1024, 2), in hundredths
calculate_file_size(file_base64) ==
    LET d == B64Decode(StripPrefix(file_base64)) IN
    IF ~d.ok THEN Returned(0)
    ELSE Returned(RoundHalfEven(Len(d.bytes) * 100, 1024))

\* a filename argument: given is FALSE for None
NoFilename == [given |-> FALSE, name |-> <<>>]
Filename(n) == [given |-> TRUE, name |-> n]

Message == "Archivo recibido correctamente"

FileInfo(n, t, k) ==
    [message |-> Message, filename |-> n, file_type |-> t, file_size_kb |-> k]

NoInfo == FileInfo(<<>>, <<>>, 0)

\* faulty variant: the default name is built from the type as it is, whatever it is
get_file_info_plain(file_base64, filename) ==
    LET t == detect_file_type(file_base64)
        k == calculate_file_size(file_base64)
        n == IF ~filename.given \/ filename.name = <<>>
             THEN <<"a", "r", "c", "h", "i", "v", "o", ".">> \o t.value
             ELSE filename.name
    IN  IF t.raised \/ k.raised THEN Raised(NoInfo)
        ELSE Returned(FileInfo(n, t.value, k.value))

get_file_info(file_base64, filename) ==
    LET t == detect_file_type(file_base64)
        k == calculate_file_size(file_base64)
        extension == IF t.value # UNKNOWN THEN Lower(t.value)
                     ELSE <<"b", "i", "n">>
        n == IF ~filename.given \/ filename.name = <<>>
             THEN <<"a", "r", "c", "h", "i", "v", "o", ".">> \o extension
             ELSE filename.name
    IN  IF t.raised \/ k.raised THEN Raised(NoInfo)
        ELSE Returned(FileInfo(n, t.value, k.value))

(***************************************************************************)
(* The reply of the external model and json.loads                          *)
(*                                                                         *)
(* A reply text is written over the lexemes of Lexemes: " " is a           *)
(* whitespace character, "s" a string literal, "1" a digit and "x" a       *)
(* character that starts no JSON value.  There is no comma, so an    *)
(* array or object of the model holds at most one member.                  *)
(*                                                                         *)
(* A Python value is [t, items, pairs, text]: t is its type, items the     *)
(* members of a list, pairs the <<key, value>> members of a dict, text the *)
(* characters of a str.                                                    *)
(***************************************************************************)
Lexemes == {" ", "{", "}", "[", "]", ":", "s", "1", "x"}

Value(t, items, pairs, text) ==
    [t |-> t, items |-> items, pairs |-> pairs, text |-> text]

NoneVal == Value("none", <<>>, <<>>, <<>>)
NumVal == Value("num", <<>>, <<>>, <<>>)
StrVal(text) == Value("str", <<>>, <<>>, text)
ListVal(items) == Value("list", items, <<>>, <<>>)
DictVal(pairs) == Value("dict", <<>>, pairs, <<>>)

RECURSIVE SkipWs(_, _)
\* WHITESPACE.match(s, i).end()
SkipWs(s, i) ==
    IF i <= Len(s) /\ s[i] = " " THEN SkipWs(s, i + 1) ELSE i

RECURSIVE SkipDigits(_, _)
\* the end of the number literal that starts at s[i]
SkipDigits(s, i) ==
    IF i <= Len(s) /\ s[i] = "1" THEN SkipDigits(s, i + 1) ELSE i

RECURSIVE StripLeft(_)
StripLeft(s) ==
    IF s # <<>> /\ Head(s) = " " THEN StripLeft(Tail(s)) ELSE s

RECURSIVE StripRight(_)
StripRight(s) ==
    IF s # <<>> /\ s[Len(s)] = " "
    THEN StripRight(SubSeq(s, 1, Len(s) - 1))
    ELSE s

\* str.strip()
Strip(s) == StripRight(StripLeft(s))

Parsed(v, end) == [st |-> "ok", val |-> v, end |-> end]
JSONDecodeError == [st |-> "JSONDecodeError", val |-> NoneVal, end |-> 0]
RecursionError == [st |-> "RecursionError", val |-> NoneVal, end |-> 0]

RECURSIVE ScanOnce(_, _, _)
\* the scanner of json.decoder at s[idx], depth containers deep
ScanOnce(s, idx, depth) ==
    IF idx > Len(s) THEN JSONDecodeError
    ELSE IF s[idx] = "s" THEN Parsed(StrVal(<<"s">>), idx + 1)
    ELSE IF s[idx] = "1" THEN Parsed(NumVal, SkipDigits(s, idx))
    ELSE IF s[idx] = "{" THEN
        IF depth + 1 > RecursionLimit THEN RecursionError
        ELSE LET k == SkipWs(s, idx + 1) IN
             IF k > Len(s) THEN JSONDecodeError
             ELSE IF s[k] = "}" THEN Parsed(DictVal(<<>>), k + 1)
             ELSE IF s[k] # "s" THEN JSONDecodeError
             ELSE LET c == SkipWs(s, k + 1) IN
                  IF c > Len(s) \/ s[c] # ":" THEN JSONDecodeError
                  ELSE LET v == ScanOnce(s, SkipWs(s, c + 1), depth + 1) IN
                       IF v.st # "ok" THEN v
                       ELSE LET e == SkipWs(s, v.end) IN
                            IF e <= Len(s) /\ s[e] = "}"
                            THEN Parsed(DictVal(<< <<"s", v.val>> >>), e + 1)
                            ELSE JSONDecodeError
    ELSE IF s[idx] = "[" THEN
        IF depth + 1 > RecursionLimit THEN RecursionError
        ELSE LET k == SkipWs(s, idx + 1) IN
             IF k > Len(s) THEN JSONDecodeError
             ELSE IF s[k] = "]" THEN Parsed(ListVal(<<>>), k + 1)
             ELSE LET v == ScanOnce(s, k, depth + 1) IN
                  IF v.st # "ok" THEN v
                  ELSE LET e == SkipWs(s, v.end) IN
                       IF e <= Len(s) /\ s[e] = "]"
                       THEN Parsed(ListVal(<<v.val>>), e + 1)
                       ELSE JSONDecodeError
    ELSE JSONDecodeError

\* json.loads(s): one value, whitespace around it allowed, nothing after it
JsonLoads(s) ==
    LET v == ScanOnce(s, SkipWs(s, 1), 0) IN
    IF v.st # "ok" THEN v
    ELSE IF SkipWs(s, v.end) # Len(s) + 1 THEN JSONDecodeError
    ELSE v

\* what generate_content does: raise, or answer with a text or with none
ReplyRaise == [kind |-> "raise", text |-> <<>>]
ReplyNone == [kind |-> "none", text |-> <<>>]
ReplyText(t) == [kind |-> "text", text |-> t]

(***************************************************************************)
(* State                                                                   *)
(*                                                                         *)
(* handle  what _initialize_gemini stores in the service: the client and   *)
(*         the model name.  It is the only state the invocations share.    *)
(* inv     the invocations of process_image, each with its arguments, its  *)
(*         locals, the reply the external model gives to it, and what it   *)
(*         has done so far (calls, steps, sent, outcome).                  *)
(* fi      one call of a FileInfoService method and its result.            *)
(***************************************************************************)
VARIABLES handle, inv, fi

vars == <<handle, inv, fi>>

Inv == 1..NInv

InitialHandle == [gemini_client |-> "genai.Client", model_name |-> "GEMINI_MODEL"]

Directive ==
    "IMPORTANTE: Devuelve UNICAMENTE un objeto JSON valido con los campos solicitados."

NoSent == [model |-> "", data |-> <<>>, mime_type |-> "", text |-> <<>>,
           response_mime_type |-> ""]

NoOutcome == [st |-> "none", val |-> NoneVal, err |-> ""]
Return(v) == [st |-> "return", val |-> v, err |-> ""]
Raise(e) == [st |-> "raise", val |-> NoneVal, err |-> e]

Input(p, q, m, r) == [image_base64 |-> p, prompt |-> q, mime_type |-> m, reply |-> r]

Frame(pc, in) ==
    [pc |-> pc, image_base64 |-> in.image_base64, prompt |-> in.prompt,
     mime_type |-> in.mime_type, reply |-> in.reply,
     file_bytes |-> <<>>, full_prompt |-> <<>>, contents |-> NoSent,
     response |-> [kind |-> "unset", text |-> <<>>],
     sent |-> NoSent, calls |-> 0, steps |-> <<>>, outcome |-> NoOutcome]

(***************************************************************************)
(* Inputs                                                                  *)
(***************************************************************************)
PayloadChars == {"A", "/", "=", ",", "!", NonAscii}

ShortPayloads == SeqsUpTo(PayloadChars, MaxPayloadLen)

Magics == {MagicPDF, MagicPNG, MagicJPEG}

\* the signatures and what falls short of them, with some bytes after
Heads == UNION {{SubSeq(m, 1, k) : k \in 0..Len(m)} : m \in Magics}

FileBytes == {h \o t : h \in Heads, t \in SeqsUpTo({0, 37, 255}, MaxTail)}

Zeros(n) == [j \in 1..n |-> 0]

Front(s) == SubSeq(s, 1, Len(s) - 1)

Bodies ==
    {B64Encode(b) : b \in FileBytes}
        \cup {Front(B64Encode(b)) : b \in FileBytes \ {<<>>}}

\* "d" stands for the metadata of a data URL
Prefixes == {<<>>, <<"d", ",">>}

Suffixes == {<<>>, <<",", "A", "A", "A", "A">>}

FramedPayloads == {pre \o b \o post : pre \in Prefixes, b \in Bodies, post \in Suffixes}

SizedPayloads == {pre \o B64Encode(Zeros(n)) : pre \in Prefixes, n \in 0..MaxSizeBytes}

Payloads == ShortPayloads \cup FramedPayloads

Texts == SeqsUpTo(Lexemes, MaxText)

Replies == {ReplyRaise, ReplyNone} \cup {ReplyText(t) : t \in Texts}

FewReplies == {ReplyRaise, ReplyNone, ReplyText(<<"{", "}">>), ReplyText(<<"x">>)}

MimeTypes == {"image/jpeg", "application/pdf"}

Prompt1 == <<"Extrae el numero de documento">>
Prompt2 == <<"Extrae la prescripcion">>

\* every payload with a few replies, every reply with one payload, and both
\* mime types
ImageInputs ==
    {Input(p, Prompt1, "image/jpeg", r) : p \in Payloads, r \in FewReplies}
        \cup {Input(B64Encode(MagicPDF), Prompt2, "application/pdf", r) : r \in Replies}
        \cup {Input(<<"d", ",">> \o B64Encode(MagicPNG), Prompt2, m, ReplyText(<<"s">>)) :
                 m \in MimeTypes}

ConcInputs ==
    { Input(B64Encode(Zeros(3)), Prompt1, "image/jpeg", ReplyText(<<"{", "}">>)),
      Input(<<"d", ",">> \o B64Encode(MagicJPEG), Prompt2, "application/pdf",
            ReplyText(<<"x">>)),
      Input(<<"A">>, Prompt1, "image/jpeg", ReplyText(<<"1">>)),
      Input(B64Encode(MagicPNG), Prompt2, "image/jpeg", ReplyRaise),
      Input(B64Encode(MagicPDF), Prompt1, "application/pdf", ReplyNone),
      Input(B64Encode(MagicPDF), Prompt2, "image/jpeg", ReplyText(<<" ", "1", " ">>)) }

Filenames == {NoFilename, Filename(<<>>), Filename(<<"X", ".", "p", "d", "f">>)}

OffInput == Input(<<>>, <<>>, "image/jpeg", ReplyNone)

IdleFi ==
    [pc |-> "idle", op |-> "", file_base64 |-> <<>>, filename |-> NoFilename,
     ret_type |-> Returned(<<>>), ret_size |-> Returned(0), ret_info |-> Returned(NoInfo)]

(***************************************************************************)
(* GeminiService.process_image, step by step                               *)
(***************************************************************************)
Step(r, name) == Append(r.steps, name)

\* faulty variant: a payload that does not decode is processed as an empty file
DecodeLenient(i) ==
    /\ inv[i].pc = "start"
    /\ LET r == inv[i]
           d == B64Decode(StripPrefix(r.image_base64))
       IN  inv' = [inv EXCEPT ![i] =
                     [r EXCEPT !.pc = "decoded", !.file_bytes = d.bytes,
                               !.steps = Step(r, "decode")]]
    /\ UNCHANGED <<handle, fi>>

\* faulty variant: the decoded bytes are kept in the service, not in the invocation
DecodeShared(i) ==
    /\ inv[i].pc = "start"
    /\ LET r == inv[i]
           d == B64Decode(StripPrefix(r.image_base64))
       IN  inv' = [j \in Inv |->
                     IF j = i
                     THEN IF d.ok
                          THEN [r EXCEPT !.pc = "decoded", !.file_bytes = d.bytes,
                                         !.steps = Step(r, "decode")]
                          ELSE [r EXCEPT !.pc = "done", !.outcome = Raise("ValueError"),
                                         !.steps = Step(r, "decode")]
                     ELSE IF d.ok THEN [inv[j] EXCEPT !.file_bytes = d.bytes]
                          ELSE inv[j]]
    /\ UNCHANGED <<handle, fi>>

Decode(i) ==
    /\ inv[i].pc = "start"
    /\ LET r == inv[i]
           d == B64Decode(StripPrefix(r.image_base64))
       IN  inv' = [inv EXCEPT ![i] =
                     IF d.ok
                     THEN [r EXCEPT !.pc = "decoded", !.file_bytes = d.bytes,
                                    !.steps = Step(r, "decode")]
                     ELSE [r EXCEPT !.pc = "done", !.outcome = Raise("ValueError"),
                                    !.steps = Step(r, "decode")]]
    /\ UNCHANGED <<handle, fi>>

Compose(i) ==
    /\ inv[i].pc = "decoded"
    /\ LET r == inv[i]
           full == r.prompt \o <<Directive>>
       IN  inv' = [inv EXCEPT ![i] =
                     [r EXCEPT !.pc = "composed", !.full_prompt = full,
                               !.contents = [model |-> "", data |-> r.file_bytes,
                                             mime_type |-> r.mime_type, text |-> full,
                                             response_mime_type |-> "application/json"],
                               !.steps = Step(r, "compose")]]
    /\ UNCHANGED <<handle, fi>>

\* faulty variant: a failed call is tried again
InvokeRetrying(i) ==
    /\ inv[i].pc = "composed"
    /\ inv[i].calls < 3
    /\ LET r == inv[i]
           s == [r.contents EXCEPT !.model = handle.model_name]
       IN  inv' = [inv EXCEPT ![i] =
                     IF r.reply.kind = "raise"
                     THEN [r EXCEPT !.calls = r.calls + 1, !.sent = s,
                                    !.steps = Step(r, "invoke")]
                     ELSE [r EXCEPT !.pc = "invoked", !.calls = r.calls + 1, !.sent = s,
                                    !.response = r.reply, !.steps = Step(r, "invoke")]]
    /\ UNCHANGED <<handle, fi>>

Invoke(i) ==
    /\ inv[i].pc = "composed"
    /\ LET r == inv[i]
           s == [r.contents EXCEPT !.model = handle.model_name]
       IN  inv' = [inv EXCEPT ![i] =
                     IF r.reply.kind = "raise"
                     THEN [r EXCEPT !.pc = "done", !.calls = r.calls + 1, !.sent = s,
                                    !.outcome = Raise("ModelError"),
                                    !.steps = Step(r, "invoke")]
                     ELSE [r EXCEPT !.pc = "invoked", !.calls = r.calls + 1, !.sent = s,
                                    !.response = r.reply, !.steps = Step(r, "invoke")]]
    /\ UNCHANGED <<handle, fi>>

RawResponse(text) == DictVal(<< <<"raw_response", StrVal(text)>> >>)

NoResponse == DictVal(<< <<"error", StrVal(<<"No response from Gemini">>)>> >>)

\* lines 113-138: what the invocation ends with, given the response
Normalized(response) ==
    IF response.kind = "text" /\ response.text # <<>>
    THEN LET result_text == Strip(response.text)
             j == JsonLoads(result_text)
         IN  IF j.st = "ok" THEN Return(j.val)
             ELSE IF j.st = "JSONDecodeError" THEN Return(RawResponse(result_text))
             ELSE Raise(j.st)
    ELSE Return(NoResponse)

Normalize(i) ==
    /\ inv[i].pc = "invoked"
    /\ LET r == inv[i]
       IN  inv' = [inv EXCEPT ![i] =
                     [r EXCEPT !.pc = "done", !.outcome = Normalized(r.response),
                               !.steps = Step(r, "normalize")]]
    /\ UNCHANGED <<handle, fi>>

\* process_image from its arguments and the reply to its outcome
process_image(in) ==
    LET d == B64Decode(StripPrefix(in.image_base64)) IN
    IF ~d.ok THEN Raise("ValueError")
    ELSE IF in.reply.kind = "raise" THEN Raise("ModelError")
    ELSE Normalized(in.reply)

(***************************************************************************)
(* FileInfoService, one call of one of its methods                         *)
(***************************************************************************)
DetectFileType ==
    /\ fi.pc = "call"
    /\ fi' = [fi EXCEPT !.pc = "done", !.op = "detect_file_type",
                        !.ret_type = detect_file_type(fi.file_base64)]
    /\ UNCHANGED <<handle, inv>>

CalculateFileSize ==
    /\ fi.pc = "call"
    /\ fi' = [fi EXCEPT !.pc = "done", !.op = "calculate_file_size",
                        !.ret_size = calculate_file_size(fi.file_base64)]
    /\ UNCHANGED <<handle, inv>>

GetFileInfo ==
    /\ fi.pc = "call"
    /\ fi' = [fi EXCEPT !.pc = "done", !.op = "get_file_info",
                        !.ret_info = get_file_info(fi.file_base64, fi.filename)]
    /\ UNCHANGED <<handle, inv>>

(***************************************************************************)
(* Specifications                                                          *)
(***************************************************************************)
\* one invocation of process_image
InitImage ==
    /\ handle = InitialHandle
    /\ \E in \in ImageInputs :
         inv = [i \in Inv |-> IF i = 1 THEN Frame("start", in) ELSE Frame("off", OffInput)]
    /\ fi = IdleFi

\* every invocation running, interleaved step by step
InitConc ==
    /\ handle = InitialHandle
    /\ \E ins \in [Inv -> ConcInputs] : inv = [i \in Inv |-> Frame("start", ins[i])]
    /\ fi = IdleFi

\* one call of a FileInfoService method
InitFile ==
    /\ handle = InitialHandle
    /\ inv = [i \in Inv |-> Frame("off", OffInput)]
    /\ \E p \in Payloads \cup SizedPayloads, n \in Filenames :
         fi = [IdleFi EXCEPT !.pc = "call", !.file_base64 = p, !.filename = n]

NextImage == \E i \in Inv : Decode(i) \/ Compose(i) \/ Invoke(i) \/ Normalize(i)

NextFile == DetectFileType \/ CalculateFileSize \/ GetFileInfo

Init == InitImage \/ InitConc \/ InitFile

Next == NextImage \/ NextFile

Spec == Init /\ [][Next]_vars

SpecImage == InitImage /\ [][NextImage]_vars

SpecConc == InitConc /\ [][NextImage]_vars

SpecFile == InitFile /\ [][NextFile]_vars

(***************************************************************************)
(* Properties                                                              *)
(***************************************************************************)
Active(i) == inv[i].pc # "off"

Done(i) == inv[i].pc = "done"

Replied(i) == inv[i].response.kind # "unset"

\* the bytes the code decodes from a payload, and whether it can
Decoded(p) == B64Decode(StripPrefix(p))

\* everything after the first comma of a payload, the whole of it without one
AfterFirstComma(p) ==
    IF Contains(p, ",") THEN SubSeq(p, IndexFrom(p, ",", 1) + 1, Len(p)) ELSE p

\* the three shapes of a result
IsParsedMapping(v) == v.t = "dict"
IsFallback(v) ==
    /\ v.t = "dict"
    /\ Len(v.pairs) = 1
    /\ v.pairs[1][1] = "raw_response"
    /\ v.pairs[1][2].t = "str"
IsNoResponse(v) == v = NoResponse

(* C1: whatever the model replies (a text that parses, a text that does    *)
(* not, no text), the invocation returns a parsed mapping, the fallback    *)
(* mapping or the no-response marker, and does not raise.                  *)
C1_NormalizationTotal ==
    \A i \in Inv :
        Done(i) /\ Replied(i) =>
            /\ inv[i].outcome.st = "return"
            /\ \/ IsParsedMapping(inv[i].outcome.val)
               \/ IsFallback(inv[i].outcome.val)
               \/ IsNoResponse(inv[i].outcome.val)

C3_FallbackHoldsOriginalText ==
    \A i \in Inv :
        /\ Done(i)
        /\ inv[i].response.kind = "text"
        /\ inv[i].response.text # <<>>
        /\ JsonLoads(inv[i].response.text).st # "ok"
        => inv[i].outcome = Return(RawResponse(inv[i].response.text))

(* C4: an invocation runs decode, compose, invoke, normalize in this       *)
(* order, calls the model at most once, and a failed call ends it in an    *)
(* error, with no second call and no result.                               *)
C4_StrictOrderSingleCall ==
    \A i \in Inv :
        LET r == inv[i]
            order == <<"decode", "compose", "invoke", "normalize">>
        IN  /\ Len(r.steps) <= 4
            /\ r.steps = SubSeq(order, 1, Len(r.steps))
            /\ r.calls <= 1
            /\ r.calls = Cardinality({k \in 1..Len(r.steps) : r.steps[k] = "invoke"})
            /\ r.outcome.st = "return" => r.steps = order
            /\ r.calls = 1 /\ r.reply.kind = "raise" =>
                   /\ r.pc = "done"
                   /\ r.outcome = Raise("ModelError")
                   /\ r.steps = <<"decode", "compose", "invoke">>

C4_Witness ==
    \E i \in Inv :
        /\ Done(i)
        /\ inv[i].reply.kind = "raise"
        /\ inv[i].calls = 1
        /\ inv[i].outcome.st = "raise"

(* C5: once the payload is decoded, the bytes are the decoding of          *)
(* everything after its first comma (of the whole payload without a        *)
(* comma), and the decoding fails exactly when that text does not decode.  *)
C5_OnlyPrefixStripped ==
    \A i \in Inv :
        Active(i) /\ inv[i].pc # "start" =>
            LET d == B64Decode(AfterFirstComma(inv[i].image_base64))
            IN  IF d.ok
                THEN inv[i].file_bytes = d.bytes /\ inv[i].outcome # Raise("ValueError")
                ELSE inv[i].outcome = Raise("ValueError")

(* C6: detect_file_type returns PDF for bytes that begin with %PDF, PNG    *)
(* for \x89PNG, JPEG for \xFF\xD8\xFF and UNKNOWN for all else, the empty  *)
(* sequence and a payload that does not decode included; it never raises,  *)
(* and another payload of the same bytes gets the same type.               *)
C6_ClassifiesByLeadingBytes ==
    fi.op = "detect_file_type" =>
        LET d == Decoded(fi.file_base64)
            b == d.bytes
            t == fi.ret_type.value
            pdf == d.ok /\ Len(b) >= 4 /\ b[1] = 37 /\ b[2] = 80 /\ b[3] = 68 /\ b[4] = 70
            png == d.ok /\ Len(b) >= 4 /\ b[1] = 137 /\ b[2] = 80 /\ b[3] = 78 /\ b[4] = 71
            jpeg == d.ok /\ Len(b) >= 3 /\ b[1] = 255 /\ b[2] = 216 /\ b[3] = 255
        IN  /\ ~fi.ret_type.raised
            /\ pdf => t = <<"P", "D", "F">>
            /\ png => t = <<"P", "N", "G">>
            /\ jpeg => t = <<"J", "P", "E", "G">>
            /\ ~pdf /\ ~png /\ ~jpeg => t = <<"U", "N", "K", "N", "O", "W", "N">>
            /\ d.ok => /\ detect_file_type(B64Encode(b)) = fi.ret_type
                       /\ detect_file_type(<<"x", ",">> \o B64Encode(b)) = fi.ret_type

C6_Witness ==
    /\ fi.op = "detect_file_type"
    /\ Contains(fi.file_base64, ",")
    /\ StartsWith(Decoded(fi.file_base64).bytes, <<255, 216, 255>>)
    /\ fi.ret_type = Returned(<<"J", "P", "E", "G">>)

(* C7 as stated: without a filename the returned one is "file." and the    *)
(* lowercased type, "file.bin" for UNKNOWN; a supplied one is returned     *)
(* unchanged.                                                              *)
C7_DefaultIsFileDotType ==
    fi.op = "get_file_info" =>
        LET info == fi.ret_info.value
            t == info.file_type
            file == <<"f", "i", "l", "e", ".">>
        IN  IF fi.filename.given
            THEN info.filename = fi.filename.name
            ELSE /\ t = PDF => info.filename = file \o <<"p", "d", "f">>
                 /\ t = PNG => info.filename = file \o <<"p", "n", "g">>
                 /\ t = JPEG => info.filename = file \o <<"j", "p", "e", "g">>
                 /\ t = UNKNOWN => info.filename = file \o <<"b", "i", "n">>

(* C7, amended: without a filename, or with an empty one, the returned     *)
(* filename is "archivo." and the lowercased type ("archivo.pdf" for a     *)
(* payload that begins with %PDF), "archivo.bin" for UNKNOWN; a supplied   *)
(* filename that is not empty is returned unchanged.                       *)
C7_DefaultIsArchivoDotType ==
    fi.op = "get_file_info" =>
        LET info == fi.ret_info.value
            t == info.file_type
            archivo == <<"a", "r", "c", "h", "i", "v", "o", ".">>
        IN  /\ ~fi.ret_info.raised
            /\ t \in {PDF, PNG, JPEG, UNKNOWN}
            /\ IF fi.filename.given /\ fi.filename.name # <<>>
               THEN info.filename = fi.filename.name
               ELSE /\ t = PDF => info.filename = archivo \o <<"p", "d", "f">>
                    /\ t = PNG => info.filename = archivo \o <<"p", "n", "g">>
                    /\ t = JPEG => info.filename = archivo \o <<"j", "p", "e", "g">>
                    /\ t = UNKNOWN => info.filename = archivo \o <<"b", "i", "n">>

C7_Witness ==
    /\ fi.op = "get_file_info"
    /\ ~fi.filename.given
    /\ StartsWith(Decoded(fi.file_base64).bytes, <<37, 80, 68, 70>>)
    /\ fi.ret_info.value.file_type = PDF
    /\ fi.ret_info.value.filename =
           <<"a", "r", "c", "h", "i", "v", "o", ".", "p", "d", "f">>

\* a size k, in hundredths, no smaller than the size of one byte less
NotBelowOneByteLess(n, k) ==
    n >= 1 => k >= calculate_file_size(B64Encode(Zeros(n - 1))).value

(* C8 as stated: the size of n decoded bytes is n/1024 rounded to two      *)
(* decimals, a tie going up, it does not decrease with n, it is 0.0 for    *)
(* the empty payload, and the call never fails.                            *)
C8_RoundsHalfUp ==
    fi.op = "calculate_file_size" =>
        LET d == Decoded(fi.file_base64)
            n == Len(d.bytes)
            k == fi.ret_size.value
        IN  /\ ~fi.ret_size.raised
            /\ fi.file_base64 = <<>> => k = 0
            /\ d.ok => /\ 1024 * k - 100 * n <= 512
                       /\ 100 * n - 1024 * k < 512
                       /\ NotBelowOneByteLess(n, k)
            /\ ~d.ok => k = 0

(* C8, amended: the size of n decoded bytes is n/1024 rounded to two       *)
(* decimals, a tie going to the even hundredth (0.12 for n = 128), it does *)
(* not decrease with n, it is 0.0 for the empty payload, and the call      *)
(* never fails.                                                            *)
C8_RoundsHalfEven ==
    fi.op = "calculate_file_size" =>
        LET d == Decoded(fi.file_base64)
            n == Len(d.bytes)
            k == fi.ret_size.value
        IN  /\ ~fi.ret_size.raised
            /\ fi.file_base64 = <<>> => k = 0
            /\ d.ok => /\ 1024 * k - 100 * n <= 512
                       /\ 100 * n - 1024 * k <= 512
                       /\ 100 * n - 1024 * k \in {512, -512} => k % 2 = 0
                       /\ NotBelowOneByteLess(n, k)
            /\ ~d.ok => k = 0

C8_Witness ==
    /\ fi.op = "calculate_file_size"
    /\ Decoded(fi.file_base64).ok
    /\ Len(Decoded(fi.file_base64).bytes) = 128
    /\ fi.ret_size = Returned(12)

\* what invocation i hands to the model, from its own arguments alone
OwnRequest(i) ==
    [model |-> "GEMINI_MODEL", data |-> Decoded(inv[i].image_base64).bytes,
     mime_type |-> inv[i].mime_type, text |-> inv[i].prompt \o <<Directive>>,
     response_mime_type |-> "application/json"]

OwnInput(i) ==
    Input(inv[i].image_base64, inv[i].prompt, inv[i].mime_type, inv[i].reply)

(* C9: however the invocations interleave, the handle stays as it was      *)
(* initialised, and what an invocation sends to the model and what it ends *)
(* with depend only on its own payload, prompt, mime type and reply.       *)
C9_InvocationsIsolated ==
    /\ handle = InitialHandle
    /\ \A i \in Inv :
        /\ inv[i].calls >= 1 => inv[i].sent = OwnRequest(i)
        /\ inv[i].pc \in {"decoded", "composed", "invoked"} =>
               inv[i].file_bytes = Decoded(inv[i].image_base64).bytes
        /\ Done(i) => inv[i].outcome = process_image(OwnInput(i))

C9_Witness ==
    \E i, j \in Inv :
        /\ i # j
        /\ inv[i].pc = "composed"
        /\ inv[j].pc = "invoked"
        /\ inv[i].file_bytes # inv[j].file_bytes
        /\ inv[j].sent = OwnRequest(j)

(* C10: for a payload on which process_image ends in the invalid-encoding  *)
(* error, get_file_info returns the success message with type UNKNOWN and  *)
(* size 0.0, and with the default name of UNKNOWN when no filename is      *)
(* given.                                                                  *)
C10_FileInfoHidesDecodeFailure ==
    /\ fi.op = "get_file_info"
    /\ process_image(Input(fi.file_base64, Prompt1, "image/jpeg", ReplyNone))
           = Raise("ValueError")
    => /\ ~fi.ret_info.raised
       /\ fi.ret_info.value.message = "Archivo recibido correctamente"
       /\ fi.ret_info.value.file_type = <<"U", "N", "K", "N", "O", "W", "N">>
       /\ fi.ret_info.value.file_size_kb = 0
       /\ ~fi.filename.given =>
              fi.ret_info.value.filename =
                  <<"a", "r", "c", "h", "i", "v", "o", ".", "b", "i", "n">>

C10_Witness ==
    /\ fi.op = "get_file_info"
    /\ ~fi.filename.given
    /\ ~Decoded(fi.file_base64).ok
    /\ fi.ret_info.value.file_type = UNKNOWN
    /\ fi.ret_info.value.file_size_kb = 0

====
